---- MODULE Spec2Model ----
(***************************************************************************)
(* State-machine model of the adaptive AI provider layer of socialmonster: *)
(*   - CircuitBreaker          (src/lib/resilience/circuit-breaker.ts)     *)
(*   - ContentCache / apiCache (src/lib/caching/content-cache.ts)          *)
(*   - AIProviderManager       (src/lib/caching/content-cache.ts)          *)
(* Times are milliseconds as returned by Date.now().  JavaScript runs each *)
(* synchronous stretch of a handler to completion, so one action is one    *)
(* stretch between two awaits.                                             *)
(***************************************************************************)
EXTENDS Integers, Sequences, FiniteSets, TLC

VARIABLES
  now,               \* Date.now()
  \* ---- CircuitBreaker fields (circuit-breaker.ts:22-26)
  state, failureCount, lastFailureTime, nextAttemptTime, successCount,
  \* ---- calls of execute() whose operation() is awaited
  inFlight,
  \* ---- observation of the breaker's last step and of its history
  lastEvent,         \* which step of execute() ran last
  recentFailures,    \* times of the failures seen since the breaker was last closed
  halfOpenRun,       \* successes seen since the breaker last became HALF_OPEN
  \* ---- AIProviderManager fields (content-cache.ts:369-372) and the apiCache
  providers,         \* Map<string, AIProvider>, in insertion order
  requestHistory,    \* the Outcome records
  loadBalancer,      \* loadBalancer.type
  apiCache,          \* the entries of apiCache, in insertion order
  \* ---- processRequest() calls: position, locals and what each has done so far
  calls

breakerVars == <<state, failureCount, lastFailureTime, nextAttemptTime,
                 successCount, inFlight, lastEvent, recentFailures, halfOpenRun>>

managerVars == <<providers, requestHistory, loadBalancer, apiCache, calls>>

vars == <<now, breakerVars, managerVars>>

(***************************************************************************)
(* Bounds of the model                                                     *)
(***************************************************************************)
MaxTicks == 10          \* clock quanta explored after start
MaxInFlight == 2        \* concurrent execute() calls on one breaker
MaxFailureCount == 6    \* cap on failureCount, which the code never resets while OPEN
MaxCalls == 2           \* processRequest() calls made in one run
MaxCacheTicks == 2      \* clock quanta (one response TTL each) explored by the manager
MaxHistory == 3         \* Outcome records appended when the tracker runs on its own
MaxCacheSize == 2       \* maxSize of the ContentCache that is run on its own
MaxCacheClock == 2      \* clock quanta explored by that cache
MaxAccessCount == 1     \* cap on an entry's accessCount, which get() never resets

(***************************************************************************)
(* CircuitBreaker configuration: paymentCircuitBreaker                     *)
(***************************************************************************)
failureThreshold == 3
timeoutWindow == 30000
recoveryTimeout == 60000
RequiredSuccesses == 5

\* The clock advances in halves of the failure window, so that instants exactly
\* at, before and after timeoutWindow and recoveryTimeout all occur.
TickStep == timeoutWindow \div 2
\* The process starts long after the epoch: Date.now() exceeds every window.
StartTime == timeoutWindow + recoveryTimeout
EndTime == StartTime + MaxTicks * TickStep

Last(s) == s[Len(s)]

\* The last n elements of s (Array.prototype.slice(-n)).
SliceLast(s, n) == IF Len(s) <= n THEN s ELSE SubSeq(s, Len(s) - n + 1, Len(s))

(***************************************************************************)
(* CircuitBreaker                                                          *)
(***************************************************************************)
BreakerInit ==
  /\ state = "CLOSED"
  /\ failureCount = 0
  /\ lastFailureTime = 0
  /\ nextAttemptTime = 0
  /\ successCount = 0
  /\ inFlight = 0
  /\ lastEvent = "init"
  /\ recentFailures = <<>>
  /\ halfOpenRun = 0

RejectsCall_WrongField == state = "OPEN" /\ now < lastFailureTime

\* execute(): the OPEN breaker rejects the call
RejectsCall == state = "OPEN" /\ now < nextAttemptTime

AttemptRecovery_KeepCount ==
  /\ state' = "HALF_OPEN"
  /\ UNCHANGED successCount

\* execute(): the OPEN breaker whose recovery time has come starts probing
AttemptRecovery ==
  /\ state' = "HALF_OPEN"
  /\ successCount' = 0

open_WrongTimeout ==
  /\ state' = "OPEN"
  /\ nextAttemptTime' = now + timeoutWindow

\* open()
open ==
  /\ state' = "OPEN"
  /\ nextAttemptTime' = now + recoveryTimeout

reset_KeepFailureCount ==
  /\ state' = "CLOSED"
  /\ UNCHANGED failureCount
  /\ successCount' = 0
  /\ lastFailureTime' = 0
  /\ nextAttemptTime' = 0

\* reset()
reset ==
  /\ state' = "CLOSED"
  /\ failureCount' = 0
  /\ successCount' = 0
  /\ lastFailureTime' = 0
  /\ nextAttemptTime' = 0

RecoveryComplete_OffByOne == successCount + 1 > RequiredSuccesses

\* onSuccess(): has the HALF_OPEN breaker now seen enough successes
RecoveryComplete == successCount + 1 >= RequiredSuccesses

onSuccess_ResetsAtWindow ==
  IF state = "HALF_OPEN"
  THEN IF RecoveryComplete
       THEN reset
       ELSE /\ successCount' = successCount + 1
            /\ UNCHANGED <<state, failureCount, lastFailureTime, nextAttemptTime>>
  ELSE IF state = "CLOSED"
  THEN /\ failureCount' = IF now - lastFailureTime >= timeoutWindow
                          THEN 0 ELSE failureCount
       /\ UNCHANGED <<state, successCount, lastFailureTime, nextAttemptTime>>
  ELSE UNCHANGED <<state, failureCount, successCount, lastFailureTime, nextAttemptTime>>

\* onSuccess()
onSuccess ==
  IF state = "HALF_OPEN"
  THEN IF RecoveryComplete
       THEN reset
       ELSE /\ successCount' = successCount + 1
            /\ UNCHANGED <<state, failureCount, lastFailureTime, nextAttemptTime>>
  ELSE IF state = "CLOSED"
  THEN /\ failureCount' = IF now - lastFailureTime > timeoutWindow
                          THEN 0 ELSE failureCount
       /\ UNCHANGED <<state, successCount, lastFailureTime, nextAttemptTime>>
  ELSE UNCHANGED <<state, failureCount, successCount, lastFailureTime, nextAttemptTime>>

FailureOpens_OffByOne == state = "HALF_OPEN" \/ failureCount + 1 > failureThreshold

\* onFailure(): does this failure open the breaker
FailureOpens == state = "HALF_OPEN" \/ failureCount + 1 >= failureThreshold

\* onFailure()
onFailure ==
  /\ failureCount' = failureCount + 1
  /\ lastFailureTime' = now
  /\ IF FailureOpens
     THEN open
     ELSE UNCHANGED <<state, nextAttemptTime>>
  /\ UNCHANGED successCount

\* execute(), up to the await: reject, or (after the recovery transition) invoke
\* the operation
execute ==
  IF RejectsCall
  THEN /\ lastEvent' = "rejected"
       /\ UNCHANGED <<now, state, failureCount, lastFailureTime, nextAttemptTime,
                      successCount, inFlight, recentFailures, halfOpenRun, managerVars>>
  ELSE /\ inFlight < MaxInFlight
       /\ IF state = "OPEN"
          THEN AttemptRecovery /\ halfOpenRun' = 0
          ELSE UNCHANGED <<state, successCount, halfOpenRun>>
       /\ inFlight' = inFlight + 1
       /\ lastEvent' = "admitted"
       /\ UNCHANGED <<now, failureCount, lastFailureTime, nextAttemptTime, recentFailures,
                      managerVars>>

\* execute(), after the await: operation() resolved
OperationSucceeds ==
  /\ inFlight > 0
  /\ onSuccess
  /\ inFlight' = inFlight - 1
  /\ lastEvent' = "succeeded"
  /\ halfOpenRun' = IF state = "HALF_OPEN" THEN halfOpenRun + 1 ELSE halfOpenRun
  /\ recentFailures' = IF state' = "CLOSED" /\ state # "CLOSED" THEN <<>> ELSE recentFailures
  /\ UNCHANGED <<now, managerVars>>

\* execute(), after the await: operation() rejected
OperationFails ==
  /\ inFlight > 0
  /\ failureCount < MaxFailureCount
  /\ onFailure
  /\ inFlight' = inFlight - 1
  /\ lastEvent' = "failed"
  /\ recentFailures' = IF state = "CLOSED"
                       THEN SliceLast(Append(recentFailures, now), failureThreshold)
                       ELSE recentFailures
  /\ UNCHANGED <<now, halfOpenRun, managerVars>>

\* time passes between two steps
BreakerTick ==
  /\ now + TickStep <= EndTime
  /\ now' = now + TickStep
  /\ lastEvent' = "tick"
  /\ UNCHANGED <<state, failureCount, lastFailureTime, nextAttemptTime, successCount,
                 inFlight, recentFailures, halfOpenRun, managerVars>>

(***************************************************************************)
(* Numbers.  successRate, averageLatency and the selection scores are      *)
(* fractions; they are kept exact, as [n, d] in lowest terms with d > 0.   *)
(***************************************************************************)
RECURSIVE GCD(_, _)
GCD(a, b) == IF b = 0 THEN a ELSE GCD(b, a % b)

Abs(x) == IF x < 0 THEN -x ELSE x

\* n / d
Rat(n, d) ==
  LET g == GCD(Abs(n), Abs(d))
      sg == IF d < 0 THEN -1 ELSE 1
  IN  [n |-> sg * (n \div g), d |-> sg * (d \div g)]

RInt(k) == [n |-> k, d |-> 1]
RAdd(a, b) == Rat(a.n * b.d + b.n * a.d, a.d * b.d)
RMul(a, b) == Rat(a.n * b.n, a.d * b.d)
RLess(a, b) == a.n * b.d < b.n * a.d

(***************************************************************************)
(* Values of the data model                                                *)
(***************************************************************************)
\* An optional field that is absent: "undefined" for a text, 0 for a number (the
\* code treats an absent number and 0 alike wherever it reads one, and no request
\* of the model gives an explicit 0), FALSE for a flag.
Undefined == "undefined"

\* x || dflt, for a number
OrElse(x, dflt) == IF x # 0 THEN x ELSE dflt

DefaultMaxTokens == 1000

\* The registry after initializeProviders() with both API keys set, plus one
\* provider added by registerProvider().  Prices are in thousandths of a dollar
\* per 1K tokens (0.01 $ = 10).
OpenAIModels ==
  << [id |-> "gpt-4-turbo-preview", type |-> "text", maxTokens |-> 4096,
      contextWindow |-> 128000, capabilities |-> {"reasoning", "code", "analysis"},
      costTier |-> "premium"],
     [id |-> "gpt-3.5-turbo", type |-> "text", maxTokens |-> 4096,
      contextWindow |-> 16384, capabilities |-> {"conversation", "summarization"},
      costTier |-> "medium"] >>

AnthropicModels ==
  << [id |-> "claude-3-sonnet-20240229", type |-> "text", maxTokens |-> 4096,
      contextWindow |-> 200000, capabilities |-> {"reasoning", "analysis", "safety"},
      costTier |-> "high"],
     [id |-> "claude-3-haiku-20240307", type |-> "text", maxTokens |-> 4096,
      contextWindow |-> 200000, capabilities |-> {"speed", "efficiency"},
      costTier |-> "low"] >>

BackupModels ==
  << [id |-> "gpt-3.5-turbo-instruct", type |-> "text", maxTokens |-> 2048,
      contextWindow |-> 4096, capabilities |-> {"conversation"},
      costTier |-> "low"] >>

Provider(id, type, models, inPrice, outPrice, latency, rate, status) ==
  [id |-> id, type |-> type, models |-> models,
   pricing |-> [inputTokens |-> inPrice, outputTokens |-> outPrice],
   performance |-> [averageLatency |-> latency, successRate |-> rate,
                    lastFailure |-> 0],
   status |-> status]

Statuses == {"active", "degraded", "offline"}

Registry(s1, s2, s3) ==
  << Provider("openai", "openai", OpenAIModels, 10, 30, RInt(2500), Rat(99, 100), s1),
     Provider("anthropic", "anthropic", AnthropicModels, 3, 15, RInt(3000), Rat(98, 100), s2),
     Provider("backup", "openai", BackupModels, 2, 4, RInt(1000), Rat(90, 100), s3) >>

\* A prompt is its first 100 characters (head), what follows them (tail) and its
\* length.
Prompt(head, tail, len) == [head |-> head, tail |-> tail, length |-> len]

AIRequest(type, prompt, maxTokens, temperature, priority, budget, minQuality, reasoning) ==
  [type |-> type, prompt |-> prompt, maxTokens |-> maxTokens,
   temperature |-> temperature, priority |-> priority, budget |-> budget,
   requirements |-> [minQuality |-> minQuality, requiresReasoning |-> reasoning]]

\* The requests of the model: a plain one; one with the same first 100 characters,
\* maxTokens and temperature but a longer prompt and another priority; one that
\* needs a reasoning model; one that no model of the registry is large enough for.
ReqPlain ==
  AIRequest("text_generation", Prompt("post", "", 100), 0, 0, Undefined, 0, 0, FALSE)
ReqSameKey ==
  AIRequest("text_generation", Prompt("post", "more", 140), 0, 0, "urgent", 0, 0, FALSE)
ReqReasoning ==
  AIRequest("text_generation", Prompt("proof", "", 8), 4096, 0, "low", 0, 0, TRUE)
ReqTooLarge ==
  AIRequest("text_generation", Prompt("book", "", 12), 8192, 0, Undefined, 0, 0, FALSE)

Requests == {ReqPlain, ReqSameKey, ReqReasoning, ReqTooLarge}

\* a prompt of 40000 characters, for which the price of the input tokens matters
ReqLong ==
  AIRequest("text_generation", Prompt("essay", "chapters", 40000), 0, 0, Undefined, 0, 0, FALSE)

\* What a backend may answer: the text, and the usage it reports
Contents == {"two sentences and a list"}
Usages == { [inputTokens |-> 3, outputTokens |-> 1000] }
\* What performance.now() differences may be
Latencies == {500, 2000}

NoProvider == "none"
NoResponse ==
  [content |-> Undefined, model |-> Undefined, provider |-> NoProvider,
   usage |-> [inputTokens |-> 0, outputTokens |-> 0, totalTokens |-> 0, cost |-> 0],
   metrics |-> [latency |-> 0, quality |-> 0]]

(***************************************************************************)
(* ContentCache                                                            *)
(***************************************************************************)
ApiCacheMaxSize == 1000
ApiCacheDefaultTTL == 300000
ResponseTTL == 3600000

CacheKeys(cache) == {cache[i].key : i \in 1..Len(cache)}
CacheIndex(cache, key) == CHOOSE i \in 1..Len(cache) : cache[i].key = key
RemoveAt(seq, i) == SubSeq(seq, 1, i - 1) \o SubSeq(seq, i + 1, Len(seq))

CacheGet_ExpiresEarly(cache, key, t) ==
  IF key \notin CacheKeys(cache)
  THEN [cache |-> cache, value |-> NoResponse]
  ELSE LET i == CacheIndex(cache, key)
           entry == cache[i]
       IN  IF t >= entry.expiresAt
           THEN [cache |-> RemoveAt(cache, i), value |-> NoResponse]
           ELSE [cache |-> [cache EXCEPT ![i].accessCount = @ + 1,
                                         ![i].lastAccessed = t],
                 value |-> entry.value]

CacheGet_ReturnsExpired(cache, key, t) ==
  IF key \notin CacheKeys(cache)
  THEN [cache |-> cache, value |-> NoResponse]
  ELSE LET i == CacheIndex(cache, key)
           entry == cache[i]
       IN  [cache |-> [cache EXCEPT ![i].accessCount = @ + 1,
                                    ![i].lastAccessed = t],
            value |-> entry.value]

\* get(key): [cache |-> the entries afterwards, value |-> what is returned]
CacheGet(cache, key, t) ==
  IF key \notin CacheKeys(cache)
  THEN [cache |-> cache, value |-> NoResponse]
  ELSE LET i == CacheIndex(cache, key)
           entry == cache[i]
       IN  IF t > entry.expiresAt
           THEN [cache |-> RemoveAt(cache, i), value |-> NoResponse]
           ELSE [cache |-> [cache EXCEPT ![i].accessCount = @ + 1,
                                         ![i].lastAccessed = t],
                 value |-> entry.value]

\* evictLRU(): the position of the first entry with the least lastAccessed, if
\* that is before now (0: lruKey stays null)
RECURSIVE LruScan(_, _, _, _)
LruScan(cache, i, lru, lruTime) ==
  IF i > Len(cache) THEN lru
  ELSE IF cache[i].lastAccessed < lruTime
       THEN LruScan(cache, i + 1, i, cache[i].lastAccessed)
       ELSE LruScan(cache, i + 1, lru, lruTime)

evictLRU(cache, t) ==
  LET lru == LruScan(cache, 1, 0, t)
  IN  IF lru = 0 THEN cache ELSE RemoveAt(cache, lru)

\* set(key, value, ttl) on a cache of the given maxSize and defaultTTL
CacheSet(cache, maxSize, defaultTTL, key, value, ttl, t) ==
  LET expirationTime == OrElse(ttl, defaultTTL)
      kept == IF Len(cache) >= maxSize THEN evictLRU(cache, t) ELSE cache
      entry == [key |-> key, value |-> value, expiresAt |-> t + expirationTime,
                createdAt |-> t, accessCount |-> 0, lastAccessed |-> t]
  IN  IF key \in CacheKeys(kept)
      THEN [kept EXCEPT ![CacheIndex(kept, key)] = entry]
      ELSE Append(kept, entry)

(***************************************************************************)
(* AIProviderManager: the pure parts                                       *)
(***************************************************************************)
HistoryCap == 1000
MetricsWindow == 100

ProviderIds == {providers[i].id : i \in 1..Len(providers)}
ProviderIndex(id) == CHOOSE i \in 1..Len(providers) : providers[i].id = id
ProviderById(id) == providers[ProviderIndex(id)]

\* getCacheKey(): base64 of the JSON text, which is one-to-one on these four
getCacheKey(request) ==
  [type |-> request.type, prompt |-> request.prompt.head,
   maxTokens |-> request.maxTokens, temperature |-> request.temperature]

\* estimateTokens(): Math.ceil(length / 4)
estimateTokens(prompt) == (prompt.length + 3) \div 4

\* calculateCost(): Math.round of the cost in cents
calculateCost(provider, inputTokens, outputTokens) ==
  LET tenThousandths == inputTokens * provider.pricing.inputTokens
                        + outputTokens * provider.pricing.outputTokens
  IN  (2 * tenThousandths + 10000) \div 20000

\* the test both hasCapableModel() and selectModel() apply to a model
Suitable(model, request) ==
  /\ ~(request.type = "text_generation" /\ model.type # "text")
  /\ ~(request.maxTokens # 0 /\ model.maxTokens < request.maxTokens)
  /\ ~(request.requirements.requiresReasoning /\ "reasoning" \notin model.capabilities)

hasCapableModel(provider, request) ==
  \E i \in 1..Len(provider.models) : Suitable(provider.models[i], request)

selectModel(provider, request) ==
  LET IsSuitable(m) == Suitable(m, request)
      suitableModels == SelectSeq(provider.models, IsSuitable)
      IsPremium(m) == m.costTier = "premium"
      IsLow(m) == m.costTier = "low"
      premium == SelectSeq(suitableModels, IsPremium)
      low == SelectSeq(suitableModels, IsLow)
  IN  IF suitableModels = <<>> THEN provider.models[1]
      ELSE IF request.priority = "urgent" \/ request.requirements.minQuality # 0
      THEN (IF premium # <<>> THEN premium[1] ELSE suitableModels[1])
      ELSE IF request.priority = "low" \/ request.budget # 0
      THEN (IF low # <<>> THEN low[1] ELSE suitableModels[1])
      ELSE suitableModels[1]

\* The position kept by reduce((best, current) => key(current) < key(best) ?
\* current : best) over elements with these keys
ReduceLeast(keys) ==
  LET best[i \in 1..Len(keys)] ==
        IF i = 1 THEN 1
        ELSE IF RLess(keys[i], keys[best[i - 1]]) THEN i ELSE best[i - 1]
  IN  best[Len(keys)]

ReduceGreatest_LastWins(keys) ==
  LET best[i \in 1..Len(keys)] ==
        IF i = 1 THEN 1
        ELSE IF ~RLess(keys[i], keys[best[i - 1]]) THEN i ELSE best[i - 1]
  IN  best[Len(keys)]

\* The position kept by reduce((best, current) => key(current) > key(best) ?
\* current : best) over elements with these keys
ReduceGreatest(keys) ==
  LET best[i \in 1..Len(keys)] ==
        IF i = 1 THEN 1
        ELSE IF RLess(keys[best[i - 1]], keys[i]) THEN i ELSE best[i - 1]
  IN  best[Len(keys)]

\* the cost selectByCost() and selectAdaptively() estimate for a request
EstimatedCost(provider, request) ==
  calculateCost(provider, estimateTokens(request.prompt),
                OrElse(request.maxTokens, DefaultMaxTokens))

selectByCost(candidates, request) ==
  candidates[ReduceLeast([i \in 1..Len(candidates) |->
                            RInt(EstimatedCost(candidates[i], request))])].id

\* 1000 / averageLatency
Speed(provider) ==
  Rat(1000 * provider.performance.averageLatency.d, provider.performance.averageLatency.n)

PerformanceScore(provider) == RMul(provider.performance.successRate, Speed(provider))

selectByPerformance(candidates) ==
  candidates[ReduceGreatest([i \in 1..Len(candidates) |->
                               PerformanceScore(candidates[i])])].id

AdaptiveScore(provider, request) ==
  LET estimatedCost == EstimatedCost(provider, request)
      base == RAdd(RAdd(RMul(provider.performance.successRate, RInt(40)),
                        RMul(Speed(provider), RInt(30))),
                   Rat((100 - estimatedCost) * 20, 100))
  IN  IF request.priority = "urgent"
      THEN RAdd(base, RMul(provider.performance.successRate, RInt(10)))
      ELSE IF request.priority = "low"
      THEN RAdd(base, Rat((100 - estimatedCost) * 10, 100))
      ELSE base

selectAdaptively(candidates, request) ==
  candidates[ReduceGreatest([i \in 1..Len(candidates) |->
                               AdaptiveScore(candidates[i], request)])].id

\* selectRoundRobin(): activeProviders[length % 0] is undefined
selectRoundRobin(candidates) ==
  LET IsActive(p) == p.status = "active"
      activeProviders == SelectSeq(candidates, IsActive)
  IN  IF activeProviders = <<>> THEN NoProvider
      ELSE activeProviders[(Len(requestHistory) % Len(activeProviders)) + 1].id

AvailableProviders_KeepOffline(request) ==
  LET Qualifies(p) == hasCapableModel(p, request)
  IN  SelectSeq(providers, Qualifies)

\* the providers selectProvider() chooses among
AvailableProviders(request) ==
  LET Qualifies(p) == p.status # "offline" /\ hasCapableModel(p, request)
  IN  SelectSeq(providers, Qualifies)

\* selectProvider(): the id of the chosen provider, or NoProvider
selectProvider(request) ==
  LET availableProviders == AvailableProviders(request)
      chosen == CASE loadBalancer = "least_cost" -> selectByCost(availableProviders, request)
                  [] loadBalancer = "best_performance" -> selectByPerformance(availableProviders)
                  [] loadBalancer = "adaptive" -> selectAdaptively(availableProviders, request)
                  [] OTHER -> selectRoundRobin(availableProviders)
  IN  IF availableProviders = <<>> THEN NoProvider ELSE chosen

\* sort((a, b) => b.performance.successRate - a.performance.successRate), which
\* is stable: each element goes after those whose rate is not lower than its own
SortByRateDescending(seq) ==
  LET sorted[n \in 0..Len(seq)] ==
        IF n = 0 THEN <<>>
        ELSE LET rest == sorted[n - 1]
                 x == seq[n]
                 k == Cardinality({i \in 1..Len(rest) :
                        ~RLess(rest[i].performance.successRate,
                               x.performance.successRate)})
             IN  SubSeq(rest, 1, k) \o <<x>> \o SubSeq(rest, k + 1, Len(rest))
  IN  sorted[Len(seq)]

\* attemptFailover(): the ids of the providers it will try, in order
FailoverOrder ==
  LET IsActive(p) == p.status = "active"
      remainingProviders == SortByRateDescending(SelectSeq(providers, IsActive))
  IN  [i \in 1..Len(remainingProviders) |-> remainingProviders[i].id]

\* estimateQuality() on the texts of the model: both are at most 50 characters
\* long and share no word of more than 3 letters with a prompt; one is a single
\* sentence without formatting, the other has two sentences and a list.
estimateQuality(content, request) ==
  IF content = "two sentences and a list" THEN 50 + 10 + 10 ELSE 50

\* the AIResponse executeRequest() builds from the backend's answer
BuildResponse(provider, request, content, usage, latency) ==
  [content |-> content,
   model |-> selectModel(provider, request).id,
   provider |-> provider.id,
   usage |-> [inputTokens |-> usage.inputTokens,
              outputTokens |-> usage.outputTokens,
              totalTokens |-> usage.inputTokens + usage.outputTokens,
              cost |-> calculateCost(provider, usage.inputTokens, usage.outputTokens)],
   metrics |-> [latency |-> latency, quality |-> estimateQuality(content, request)]]

\* executeRequest() reaches a backend only for these provider types
BackendSupported(provider) == provider.type \in {"openai", "anthropic"}

\* updateProviderMetrics(): the status that follows from successRate
StatusFor(successRate) ==
  IF RLess(successRate, Rat(8, 10)) THEN "degraded"
  ELSE IF RLess(successRate, Rat(5, 10)) THEN "offline"
  ELSE "active"

\* HistoryAfter() had the slice lost its sign: slice(1000) keeps what follows
\* the first HistoryCap records
HistoryAfter_SliceFromCap(history, providerId, success, cost, latency, t) ==
  LET pushed == Append(history, [timestamp |-> t, providerId |-> providerId,
                                 success |-> success, cost |-> cost, latency |-> latency])
  IN  IF Len(pushed) <= HistoryCap THEN pushed
      ELSE SubSeq(pushed, HistoryCap + 1, Len(pushed))

\* updateProviderMetrics(): requestHistory afterwards
HistoryAfter(history, providerId, success, cost, latency, t) ==
  SliceLast(Append(history, [timestamp |-> t, providerId |-> providerId,
                             success |-> success, cost |-> cost, latency |-> latency]),
            HistoryCap)

\* SumLatency() had the reduce() left out the record just pushed
RECURSIVE SumLatency_SkipsNewest(_)
SumLatency_SkipsNewest(records) ==
  IF Len(records) <= 1 THEN 0
  ELSE records[1].latency + SumLatency_SkipsNewest(Tail(records))

RECURSIVE SumLatency(_)
SumLatency(records) ==
  IF records = <<>> THEN 0 ELSE records[1].latency + SumLatency(Tail(records))

\* updateProviderMetrics(): the providers afterwards, given requestHistory
\* afterwards
ProvidersAfter(provs, historyAfter, providerId, success, t) ==
    LET i == CHOOSE j \in 1..Len(provs) : provs[j].id = providerId
        Mine(r) == r.providerId = providerId
        IsSuccess(r) == r.success
        recentRequests == SliceLast(SelectSeq(historyAfter, Mine), MetricsWindow)
        performance ==
          IF recentRequests = <<>> THEN provs[i].performance
          ELSE [averageLatency |-> Rat(SumLatency(recentRequests), Len(recentRequests)),
                successRate |-> Rat(Len(SelectSeq(recentRequests, IsSuccess)),
                                    Len(recentRequests)),
                lastFailure |-> IF success THEN provs[i].performance.lastFailure ELSE t]
    IN  [provs EXCEPT ![i].performance = performance,
                      ![i].status = StatusFor(performance.successRate)]

(***************************************************************************)
(* AIProviderManager: processRequest() and what it awaits                  *)
(***************************************************************************)
NoRequest == AIRequest("none", Prompt("", "", 0), 0, 0, Undefined, 0, 0, FALSE)

\* A processRequest() call that has not been made yet.  selected, current and
\* remaining are its locals; the other fields record what it has done.
IdleCall ==
  [pc |-> "idle", request |-> NoRequest,
   selected |-> NoProvider, current |-> NoProvider, remaining |-> <<>>,
   outcome |-> "pending", response |-> NoResponse, fromCache |-> FALSE, returnedAt |-> 0,
   candidates |-> <<>>, failover |-> FALSE, failoverList |-> <<>>,
   invoked |-> <<>>, appended |-> <<>>]

\* The two built-in providers are registered active and a failed health probe
\* may have degraded them; the third is registered with any status.
ManagerInit ==
  /\ \E s1 \in {"active", "degraded"}, s2 \in {"active", "degraded"}, s3 \in Statuses :
       providers = Registry(s1, s2, s3)
  /\ requestHistory = <<>>
  /\ loadBalancer = "adaptive"
  /\ apiCache = <<>>
  /\ calls = [c \in 1..MaxCalls |-> IdleCall]

\* updateProviderMetrics()
updateProviderMetrics(providerId, success, cost, latency) ==
  IF providerId \notin ProviderIds
  THEN UNCHANGED <<providers, requestHistory>>
  ELSE LET historyAfter ==
             HistoryAfter(requestHistory, providerId, success, cost, latency, now)
       IN  /\ requestHistory' = historyAfter
           /\ providers' = ProvidersAfter(providers, historyAfter, providerId, success, now)

\* executeRequest(provider, request), up to its await: the backend of a supported
\* provider is invoked
StartAttempt(call, id, pc) ==
  [call EXCEPT !.pc = pc, !.current = id,
               !.invoked = IF BackendSupported(ProviderById(id)) THEN Append(@, id) ELSE @]

\* attemptFailover(), up to its first await
EnterFailover(call) ==
  LET order == FailoverOrder
      entered == [call EXCEPT !.failover = TRUE, !.failoverList = order]
  IN  IF order = <<>>
      THEN [entered EXCEPT !.pc = "done", !.outcome = "AllProvidersFailed"]
      ELSE StartAttempt([entered EXCEPT !.remaining = Tail(order)], order[1], "awaitFailover")

\* attemptFailover(), after a failed attempt: the next provider, or the end
ContinueFailover(call) ==
  IF call.remaining = <<>>
  THEN [call EXCEPT !.pc = "done", !.outcome = "AllProvidersFailed"]
  ELSE StartAttempt([call EXCEPT !.remaining = Tail(@)], call.remaining[1], "awaitFailover")

\* a response is returned to the caller
Return(call, response, fromCache) ==
  [call EXCEPT !.pc = "done", !.outcome = "response", !.response = response,
               !.fromCache = fromCache, !.returnedAt = now]

\* processRequest(request), up to `await this.selectProvider(request)`
processRequest(c, request) ==
  /\ calls[c].pc = "idle"
  /\ \A d \in 1..(c - 1) : calls[d].pc # "idle"
  /\ LET got == CacheGet(apiCache, getCacheKey(request), now)
         call == [calls[c] EXCEPT !.request = request]
     IN  /\ apiCache' = got.cache
         /\ calls' = [calls EXCEPT ![c] =
              IF got.value # NoResponse
              THEN Return(call, got.value, TRUE)
              ELSE [call EXCEPT !.pc = "selected",
                                !.selected = selectProvider(request),
                                !.candidates =
                                   [i \in 1..Len(AvailableProviders(request)) |->
                                      AvailableProviders(request)[i].id]]]
  /\ UNCHANGED <<now, providers, requestHistory, loadBalancer, breakerVars>>

\* processRequest(), from the selection to the first await of a backend: the
\* selected provider is called, or 'No available AI providers' is thrown and
\* caught, and attemptFailover() begins
Dispatch(c) ==
  /\ calls[c].pc = "selected"
  /\ calls' = [calls EXCEPT ![c] =
       IF calls[c].selected = NoProvider
       THEN EnterFailover(@)
       ELSE StartAttempt(@, calls[c].selected, "awaitFirst")]
  /\ UNCHANGED <<now, providers, requestHistory, loadBalancer, apiCache, breakerVars>>

\* the selected provider's backend answers: metrics, cache, return
FirstSucceeds(c, content, usage, latency) ==
  /\ calls[c].pc = "awaitFirst"
  /\ BackendSupported(ProviderById(calls[c].current))
  /\ LET call == calls[c]
         response == BuildResponse(ProviderById(call.current), call.request,
                                   content, usage, latency)
     IN  /\ updateProviderMetrics(call.current, TRUE, response.usage.cost, latency)
         /\ apiCache' = CacheSet(apiCache, ApiCacheMaxSize, ApiCacheDefaultTTL,
                                 getCacheKey(call.request), response, ResponseTTL, now)
         /\ calls' = [calls EXCEPT ![c] =
              Return([call EXCEPT !.appended = Append(@, call.current)], response, FALSE)]
  /\ UNCHANGED <<now, loadBalancer, breakerVars>>

\* the selected provider's call throws: caught, attemptFailover() begins
FirstFails(c) ==
  /\ calls[c].pc = "awaitFirst"
  /\ calls' = [calls EXCEPT ![c] = EnterFailover(@)]
  /\ UNCHANGED <<now, providers, requestHistory, loadBalancer, apiCache, breakerVars>>

\* a failover provider's backend answers: metrics, return
FailoverSucceeds(c, content, usage, latency) ==
  /\ calls[c].pc = "awaitFailover"
  /\ BackendSupported(ProviderById(calls[c].current))
  /\ LET call == calls[c]
         response == BuildResponse(ProviderById(call.current), call.request,
                                   content, usage, latency)
     IN  /\ updateProviderMetrics(call.current, TRUE, response.usage.cost, latency)
         /\ calls' = [calls EXCEPT ![c] =
              Return([call EXCEPT !.appended = Append(@, call.current)], response, FALSE)]
  /\ UNCHANGED <<now, loadBalancer, apiCache, breakerVars>>

\* a failover provider's call throws: the loop continues
FailoverFails(c) ==
  /\ calls[c].pc = "awaitFailover"
  /\ calls' = [calls EXCEPT ![c] = ContinueFailover(@)]
  /\ UNCHANGED <<now, providers, requestHistory, loadBalancer, apiCache, breakerVars>>

Strategies == {"round_robin", "least_cost", "best_performance", "adaptive"}

\* setLoadBalancingStrategy()
setLoadBalancingStrategy(type) ==
  /\ loadBalancer # type
  /\ \E c \in 1..MaxCalls : calls[c].pc = "idle"
  /\ loadBalancer' = type
  /\ UNCHANGED <<now, providers, requestHistory, apiCache, calls, breakerVars>>

\* time passes between two steps, one response TTL at a time: an entry is read
\* at the instant it was written, at the instant it expires, and after it
CacheTickStep == ResponseTTL

\* (a call of processRequest() takes far less than that)
ManagerTick ==
  /\ \A c \in 1..MaxCalls : calls[c].pc \in {"idle", "done"}
  /\ now + CacheTickStep <= StartTime + MaxCacheTicks * CacheTickStep
  /\ now' = now + CacheTickStep
  /\ UNCHANGED <<providers, requestHistory, loadBalancer, apiCache, calls, breakerVars>>

(***************************************************************************)
(* Specifications                                                          *)
(***************************************************************************)
\* The manager as left by its constructor, for the runs of the breaker alone
ManagerIdle ==
  /\ providers = Registry("active", "active", "active")
  /\ requestHistory = <<>>
  /\ loadBalancer = "adaptive"
  /\ apiCache = <<>>
  /\ calls = [c \in 1..MaxCalls |-> IdleCall]

InitBreaker == now = StartTime /\ BreakerInit /\ ManagerIdle

NextBreaker ==
  \/ execute
  \/ OperationSucceeds
  \/ OperationFails
  \/ BreakerTick

SpecBreaker == InitBreaker /\ [][NextBreaker]_vars

Init == now = StartTime /\ BreakerInit /\ ManagerInit

Next ==
  \/ \E c \in 1..MaxCalls, request \in Requests : processRequest(c, request)
  \/ \E c \in 1..MaxCalls : Dispatch(c)
  \/ \E c \in 1..MaxCalls, content \in Contents, usage \in Usages, latency \in Latencies :
       FirstSucceeds(c, content, usage, latency)
  \/ \E c \in 1..MaxCalls : FirstFails(c)
  \/ \E c \in 1..MaxCalls, content \in Contents, usage \in Usages, latency \in Latencies :
       FailoverSucceeds(c, content, usage, latency)
  \/ \E c \in 1..MaxCalls : FailoverFails(c)
  \/ \E type \in Strategies : setLoadBalancingStrategy(type)
  \/ ManagerTick

Spec == Init /\ [][Next]_vars

(***************************************************************************)
(* The registry and the performance tracking on their own:                 *)
(* registerProvider() and updateProviderMetrics() with each value of their *)
(* arguments                                                               *)
(***************************************************************************)
\* registerProvider(): Map.set() replaces the value of a key that is present, in
\* its place, and adds a key that is absent at the end
registerProvider(provider) ==
  /\ providers' = IF provider.id \in ProviderIds
                  THEN [providers EXCEPT ![ProviderIndex(provider.id)] = provider]
                  ELSE Append(providers, provider)
  /\ UNCHANGED <<now, requestHistory, loadBalancer, apiCache, calls, breakerVars>>

\* The providers registerProvider() is called with: two whose id is registered
\* already, with other prices, performance and status, and one that is new.
Registrations ==
  { Provider("backup", "openai", BackupModels, 1, 2, RInt(800), Rat(95, 100), "active"),
    Provider("openai", "openai", OpenAIModels, 10, 30, RInt(2500), Rat(99, 100), "offline"),
    Provider("local", "openai", BackupModels, 1, 1, RInt(400), Rat(3, 10), "active") }

\* the cost an Outcome record carries, in cents
Costs == {3}

\* updateProviderMetrics(providerId, success, cost, latency) as a step of its own
RecordOutcome(providerId, success, cost, latency) ==
  /\ Len(requestHistory) < MaxHistory
  /\ updateProviderMetrics(providerId, success, cost, latency)
  /\ UNCHANGED <<now, loadBalancer, apiCache, calls, breakerVars>>

InitTracker == now = StartTime /\ BreakerInit /\ ManagerIdle

NextTracker ==
  \/ \E provider \in Registrations : registerProvider(provider)
  \/ \E providerId \in ProviderIds, success \in BOOLEAN, cost \in Costs, latency \in Latencies :
       RecordOutcome(providerId, success, cost, latency)

SpecTracker == InitTracker /\ [][NextTracker]_vars

(***************************************************************************)
(* processRequest() on other registries and under a strategy that is set   *)
(* before the first call                                                   *)
(***************************************************************************)
\* Providers registered by registerProvider(): A and B differ in performance
\* only, zeta and alpha in nothing but the id, dear and cheap in the price of
\* the input tokens only.
ProviderA == Provider("A", "openai", OpenAIModels, 10, 30, RInt(2000), Rat(95, 100), "active")
ProviderB == Provider("B", "openai", OpenAIModels, 10, 30, RInt(500), Rat(99, 100), "active")
ProviderZeta == Provider("zeta", "openai", OpenAIModels, 10, 30, RInt(2500), Rat(99, 100), "active")
ProviderAlpha == Provider("alpha", "openai", OpenAIModels, 10, 30, RInt(2500), Rat(99, 100), "active")
ProviderDear == Provider("dear", "openai", OpenAIModels, 10, 30, RInt(2500), Rat(99, 100), "active")
ProviderCheap == Provider("cheap", "openai", OpenAIModels, 3, 30, RInt(2500), Rat(99, 100), "active")

SelectorRegistries ==
  { <<ProviderA, ProviderB>>, <<ProviderB, ProviderA>>,
    <<ProviderZeta, ProviderAlpha>>,
    <<ProviderDear, ProviderCheap>>, <<ProviderCheap, ProviderDear>>,
    Registry("active", "active", "active") }

SelectorRequests == {ReqPlain, ReqSameKey, ReqReasoning, ReqLong}

InitSelector ==
  /\ now = StartTime
  /\ BreakerInit
  /\ providers \in SelectorRegistries
  /\ requestHistory = <<>>
  /\ loadBalancer \in Strategies
  /\ apiCache = <<>>
  /\ calls = [c \in 1..MaxCalls |-> IdleCall]

NextSelector ==
  \/ \E c \in 1..MaxCalls, request \in SelectorRequests : processRequest(c, request)
  \/ \E c \in 1..MaxCalls : Dispatch(c)
  \/ \E c \in 1..MaxCalls, content \in Contents, usage \in Usages, latency \in Latencies :
       FirstSucceeds(c, content, usage, latency)
  \/ \E c \in 1..MaxCalls : FirstFails(c)
  \/ \E c \in 1..MaxCalls, content \in Contents, usage \in Usages, latency \in Latencies :
       FailoverSucceeds(c, content, usage, latency)
  \/ \E c \in 1..MaxCalls : FailoverFails(c)

SpecSelector == InitSelector /\ [][NextSelector]_vars

(***************************************************************************)
(* A ContentCache on its own: new ContentCache({ maxSize, defaultTTL })    *)
(* with set, get, has, delete and cleanup called with each value of their  *)
(* arguments, at any time                                                  *)
(***************************************************************************)
\* has(key): [cache |-> the entries afterwards, value |-> what is returned]
CacheHas(cache, key, t) ==
  IF key \notin CacheKeys(cache)
  THEN [cache |-> cache, value |-> FALSE]
  ELSE LET i == CacheIndex(cache, key)
       IN  IF t > cache[i].expiresAt
           THEN [cache |-> RemoveAt(cache, i), value |-> FALSE]
           ELSE [cache |-> cache, value |-> TRUE]

\* delete(key): the entries afterwards
CacheDelete(cache, key) ==
  IF key \in CacheKeys(cache) THEN RemoveAt(cache, CacheIndex(cache, key)) ELSE cache

\* cleanup(): the entries afterwards
CacheCleanup(cache, t) ==
  LET IsLive(entry) == ~(t > entry.expiresAt)
  IN  SelectSeq(cache, IsLive)

\* the keys and values the cache is called with; the cache's defaultTTL and the
\* ttl arguments of set (0: none given)
CacheKeyNames == {"k1", "k2", "k3"}
CacheValues == { [NoResponse EXCEPT !.content = "first"],
                 [NoResponse EXCEPT !.content = "second"] }
CacheDefaultTTL == TickStep
CacheTTLs == {0, 2 * TickStep}

CacheSetCall(key, value, ttl) ==
  /\ apiCache' = CacheSet(apiCache, MaxCacheSize, CacheDefaultTTL, key, value, ttl, now)
  /\ UNCHANGED <<now, providers, requestHistory, loadBalancer, calls, breakerVars>>

CacheGetCall(key) ==
  /\ \A i \in 1..Len(apiCache) :
       apiCache[i].key = key => apiCache[i].accessCount < MaxAccessCount
  /\ apiCache' = CacheGet(apiCache, key, now).cache
  /\ UNCHANGED <<now, providers, requestHistory, loadBalancer, calls, breakerVars>>

CacheHasCall(key) ==
  /\ apiCache' = CacheHas(apiCache, key, now).cache
  /\ UNCHANGED <<now, providers, requestHistory, loadBalancer, calls, breakerVars>>

CacheDeleteCall(key) ==
  /\ apiCache' = CacheDelete(apiCache, key)
  /\ UNCHANGED <<now, providers, requestHistory, loadBalancer, calls, breakerVars>>

CacheCleanupCall ==
  /\ apiCache' = CacheCleanup(apiCache, now)
  /\ UNCHANGED <<now, providers, requestHistory, loadBalancer, calls, breakerVars>>

\* time passes between two calls
CacheTick ==
  /\ now + TickStep <= StartTime + MaxCacheClock * TickStep
  /\ now' = now + TickStep
  /\ UNCHANGED <<providers, requestHistory, loadBalancer, apiCache, calls, breakerVars>>

InitCache == now = StartTime /\ BreakerInit /\ ManagerIdle

NextCache ==
  \/ \E key \in CacheKeyNames, value \in CacheValues, ttl \in CacheTTLs :
       CacheSetCall(key, value, ttl)
  \/ \E key \in CacheKeyNames : CacheGetCall(key)
  \/ \E key \in CacheKeyNames : CacheHasCall(key)
  \/ \E key \in CacheKeyNames : CacheDeleteCall(key)
  \/ CacheCleanupCall
  \/ CacheTick

SpecCache == InitCache /\ [][NextCache]_vars

(***************************************************************************)
(* updateProviderMetrics() on a history that is near its cap: the manager   *)
(* after many requests                                                     *)
(***************************************************************************)
\* an Outcome record pushed before StartTime
EarlierRecord(i, providerId) ==
  [timestamp |-> 0, providerId |-> providerId, success |-> i % 10 # 0,
   cost |-> 3, latency |-> IF i % 3 = 0 THEN 2000 ELSE 500]

\* requestHistory after no request, after HistoryCap - 1 requests that openai
\* served, and after HistoryCap - 1 requests of which openai served the last
\* MetricsWindow - 1
EarlierHistories ==
  { <<>>,
    [i \in 1..(HistoryCap - 1) |-> EarlierRecord(i, "openai")],
    [i \in 1..(HistoryCap - 1) |->
       EarlierRecord(i, IF i <= HistoryCap - MetricsWindow THEN "anthropic" ELSE "openai")] }

\* the providers after updateProviderMetrics() has pushed the records of history:
\* each provider's performance dates from its own last record
ProvidersTracked(history) ==
  LET Tracked(provs, id) ==
        IF \E i \in 1..Len(history) : history[i].providerId = id
        THEN ProvidersAfter(provs, history, id, TRUE, 0)
        ELSE provs
      \* the two providers the constructor registers
      built == SubSeq(Registry("active", "active", "active"), 1, 2)
  IN  Tracked(Tracked(built, "openai"), "anthropic")

\* updateProviderMetrics(providerId, success, cost, latency) as a step of its
\* own, at most MaxHistory times from StartTime on
RecordLaterOutcome(providerId, success, cost, latency) ==
  /\ IF Len(requestHistory) < MaxHistory THEN TRUE
     ELSE requestHistory[Len(requestHistory) - MaxHistory + 1].timestamp < StartTime
  /\ updateProviderMetrics(providerId, success, cost, latency)
  /\ UNCHANGED <<now, loadBalancer, apiCache, calls, breakerVars>>

InitHistory ==
  /\ now = StartTime
  /\ BreakerInit
  /\ \E history \in EarlierHistories :
       /\ requestHistory = history
       /\ providers = ProvidersTracked(history)
  /\ loadBalancer = "adaptive"
  /\ apiCache = <<>>
  /\ calls = [c \in 1..MaxCalls |-> IdleCall]

NextHistory ==
  \E providerId \in ProviderIds, success \in BOOLEAN, cost \in Costs, latency \in Latencies :
    RecordLaterOutcome(providerId, success, cost, latency)

SpecHistory == InitHistory /\ [][NextHistory]_vars

(***************************************************************************)
(* startHealthMonitoring(): the probes, beside calls of processRequest()   *)
(***************************************************************************)
\* ProbeStatus() had a successful probe set every provider active
ProbeStatus_ActivatesAny(status, success) ==
  IF success THEN "active"
  ELSE IF status = "active" THEN "degraded" ELSE status

\* the status of a provider after its probe: the try block after the await, or
\* the catch block
ProbeStatus(status, success) ==
  IF success
  THEN IF status = "offline" THEN "active" ELSE status
  ELSE IF status = "active" THEN "degraded" ELSE status

\* the backend answers the probe of provider id.  The answer is a task of its
\* own: the calls of processRequest() that were made have passed their
\* `await this.selectProvider(request)` by then.
HealthProbeSucceeds(id) ==
  /\ id \in ProviderIds
  /\ \A c \in 1..MaxCalls : calls[c].pc # "selected"
  /\ BackendSupported(ProviderById(id))
  /\ providers' = [providers EXCEPT ![ProviderIndex(id)].status = ProbeStatus(@, TRUE)]
  /\ UNCHANGED <<now, requestHistory, loadBalancer, apiCache, calls, breakerVars>>

\* the probe of provider id throws: caught in the loop
HealthProbeFails(id) ==
  /\ id \in ProviderIds
  /\ \A c \in 1..MaxCalls : calls[c].pc # "selected"
  /\ providers' = [providers EXCEPT ![ProviderIndex(id)].status = ProbeStatus(@, FALSE)]
  /\ UNCHANGED <<now, requestHistory, loadBalancer, apiCache, calls, breakerVars>>

\* the constructor's two providers and a third, registered offline
InitProbe ==
  /\ now = StartTime
  /\ BreakerInit
  /\ providers = Registry("active", "active", "offline")
  /\ requestHistory = <<>>
  /\ loadBalancer = "adaptive"
  /\ apiCache = <<>>
  /\ calls = [c \in 1..MaxCalls |-> IdleCall]

\* The timer callback probes the providers one after the other, every five
\* minutes, and calls of processRequest() run between its awaits: a probe of any
\* provider may end between any two steps of a call.
NextProbe ==
  \/ \E c \in 1..MaxCalls : processRequest(c, ReqPlain)
  \/ \E c \in 1..MaxCalls : Dispatch(c)
  \/ \E c \in 1..MaxCalls, content \in Contents, usage \in Usages, latency \in Latencies :
       FirstSucceeds(c, content, usage, latency)
  \/ \E c \in 1..MaxCalls : FirstFails(c)
  \/ \E c \in 1..MaxCalls, content \in Contents, usage \in Usages, latency \in Latencies :
       FailoverSucceeds(c, content, usage, latency)
  \/ \E c \in 1..MaxCalls : FailoverFails(c)
  \/ \E id \in ProviderIds : HealthProbeSucceeds(id)
  \/ \E id \in ProviderIds : HealthProbeFails(id)

SpecProbe == InitProbe /\ [][NextProbe]_vars

(***************************************************************************)
(* Properties of the CircuitBreaker                                        *)
(***************************************************************************)
IsExecuteCall == lastEvent' \in {"rejected", "admitted"}

\* C1: a call of execute() made while the breaker is OPEN and now < nextAttemptTime
\* is rejected: the operation is not invoked (no call is added to those in flight)
\* and the state, the counters and nextAttemptTime are left as they were.
C1_OpenRejectsWithoutInvoking ==
  [][ (state = "OPEN" /\ now < nextAttemptTime /\ IsExecuteCall)
      => /\ lastEvent' = "rejected"
         /\ inFlight' = inFlight
         /\ UNCHANGED <<state, failureCount, successCount, nextAttemptTime,
                        lastFailureTime>> ]_vars

C1_Witness ==
  /\ lastEvent = "rejected"
  /\ state = "OPEN"
  /\ now < nextAttemptTime
  /\ inFlight > 0

\* failureThreshold failures of the current CLOSED period lie within timeoutWindow
ThresholdReached(times) ==
  /\ Len(times) = failureThreshold
  /\ Last(times) - times[1] <= timeoutWindow

\* C2: the failure that completes failureThreshold failures within timeoutWindow,
\* counted from the moment the breaker was last closed, opens the breaker, and a
\* breaker that has seen them is never CLOSED.
C2_ThresholdFailuresOpen ==
  /\ [](ThresholdReached(recentFailures) => state # "CLOSED")
  /\ [][ (state = "CLOSED" /\ lastEvent' = "failed" /\ ThresholdReached(recentFailures'))
         => (state' = "OPEN" /\ nextAttemptTime' = now + recoveryTimeout) ]_vars

C2_Witness ==
  /\ lastEvent = "rejected"
  /\ state = "OPEN"
  /\ ThresholdReached(recentFailures)
  /\ failureCount = failureThreshold
  /\ now > Last(recentFailures)

\* C3: the first call of execute() at or after nextAttemptTime on an OPEN breaker
\* makes it HALF_OPEN with successCount = 0 and invokes the operation.
C3_RecoveryCallGoesThrough ==
  [][ (state = "OPEN" /\ now >= nextAttemptTime /\ IsExecuteCall)
      => /\ lastEvent' = "admitted"
         /\ state' = "HALF_OPEN"
         /\ successCount' = 0
         /\ inFlight' = inFlight + 1 ]_vars

C3_Witness ==
  /\ lastEvent = "admitted"
  /\ state = "HALF_OPEN"
  /\ successCount = 0
  /\ now >= nextAttemptTime
  /\ failureCount > failureThreshold

\* C4: a failure while HALF_OPEN opens the breaker and sets nextAttemptTime to the
\* time of the failure plus recoveryTimeout, whatever successCount is.
C4_HalfOpenFailureReopens ==
  [][ (state = "HALF_OPEN" /\ lastEvent' = "failed")
      => (state' = "OPEN" /\ nextAttemptTime' = now + recoveryTimeout) ]_vars

C4_Witness ==
  /\ lastEvent = "failed"
  /\ state = "OPEN"
  /\ successCount = RequiredSuccesses - 1
  /\ halfOpenRun = RequiredSuccesses - 1
  /\ nextAttemptTime = now + recoveryTimeout

\* C5: the success that is the RequiredSuccesses-th since the breaker became
\* HALF_OPEN closes it with failureCount = 0 and successCount = 0; an earlier one
\* leaves it HALF_OPEN.
C5_FiveSuccessesClose ==
  [][ (state = "HALF_OPEN" /\ lastEvent' = "succeeded")
      => IF halfOpenRun + 1 >= RequiredSuccesses
         THEN state' = "CLOSED" /\ failureCount' = 0 /\ successCount' = 0
         ELSE state' = "HALF_OPEN" ]_vars

C5_Witness ==
  /\ lastEvent = "succeeded"
  /\ state = "CLOSED"
  /\ halfOpenRun = RequiredSuccesses
  /\ failureCount = 0
  /\ successCount = 0

(***************************************************************************)
(* Properties of processRequest()                                          *)
(***************************************************************************)
CallIds == 1..MaxCalls

\* call c is made in this step
Issued(c) == calls[c].pc = "idle" /\ calls'[c].pc # "idle"

\* the cache holds an entry for the key that has not expired at time t
LiveEntry(cache, key, t) ==
  \E i \in 1..Len(cache) : cache[i].key = key /\ t <= cache[i].expiresAt

EntryValue(cache, key) == cache[CacheIndex(cache, key)].value

IsPermutation(s, t) ==
  /\ Len(s) = Len(t)
  /\ \A x \in {s[i] : i \in 1..Len(s)} \cup {t[i] : i \in 1..Len(t)} :
       Cardinality({i \in 1..Len(s) : s[i] = x}) = Cardinality({i \in 1..Len(t) : t[i] = x})

\* C6: a call that finds a live cache entry for its fingerprint returns that entry
\* at once; it invokes no backend, appends no Outcome record and leaves every
\* provider's performance and status as they were.
C6_CacheHitTouchesNoProvider ==
  /\ [](\A c \in CallIds :
          calls[c].fromCache =>
            (calls[c].invoked = <<>> /\ calls[c].appended = <<>> /\ ~calls[c].failover))
  /\ [][ \A c \in CallIds :
           (Issued(c) /\ LiveEntry(apiCache, getCacheKey(calls'[c].request), now))
           => /\ calls'[c].pc = "done"
              /\ calls'[c].outcome = "response"
              /\ calls'[c].response = EntryValue(apiCache, getCacheKey(calls'[c].request))
              /\ calls'[c].invoked = <<>>
              /\ calls'[c].appended = <<>>
              /\ UNCHANGED <<providers, requestHistory>> ]_vars

C6_Witness ==
  /\ calls[1].outcome = "response" /\ ~calls[1].fromCache
  /\ calls[2].pc = "done" /\ calls[2].fromCache
  /\ calls[2].request # calls[1].request
  /\ calls[2].response = calls[1].response
  /\ now = calls[1].returnedAt + ResponseTTL

\* C7 (as claimed): a call made within the TTL of an earlier call that returned a
\* response for the same fingerprint returns that response from the cache.
C7_SecondCallServedFromCache ==
  [][ \A c1 \in CallIds, c2 \in CallIds :
        ( /\ c1 # c2
          /\ calls[c1].pc = "done" /\ calls[c1].outcome = "response"
          /\ Issued(c2)
          /\ getCacheKey(calls'[c2].request) = getCacheKey(calls[c1].request)
          /\ now <= calls[c1].returnedAt + ResponseTTL )
        => /\ calls'[c2].pc = "done"
           /\ calls'[c2].fromCache
           /\ calls'[c2].response = calls[c1].response
           /\ calls'[c2].invoked = <<>> ]_vars

\* the first call was answered by a failover provider and the same request, made
\* again at once, reached a backend
C7_Witness ==
  /\ calls[1].outcome = "response" /\ calls[1].failover
  /\ calls[1].selected # NoProvider
  /\ calls[2].request = calls[1].request
  /\ calls[2].returnedAt = calls[1].returnedAt
  /\ calls[2].invoked # <<>>

\* C8 (as claimed): a call that misses the cache and finds no qualified provider
\* fails with NoAvailableProvider, invokes no backend and attempts no failover.
C8_NoCandidateFailsAtOnce ==
  \A c \in CallIds :
    (calls[c].pc \notin {"idle", "selected"} /\ ~calls[c].fromCache
     /\ calls[c].candidates = <<>>)
    => /\ ~calls[c].failover
       /\ calls[c].invoked = <<>>
       /\ calls[c].pc = "done"
       /\ calls[c].outcome = "NoAvailableProvider"

\* a call with no qualified provider went on to attemptFailover(), which invoked
\* a backend and returned its response
C8_Witness ==
  \E c \in CallIds :
    /\ calls[c].candidates = <<>> /\ ~calls[c].fromCache
    /\ calls[c].failover
    /\ calls[c].invoked # <<>>
    /\ calls[c].outcome = "response"

\* C9 (as claimed): a call that ends with AllProvidersFailed after all of its N
\* candidates failed has invoked each candidate's backend exactly once.
C9_ExhaustionCallsEachCandidateOnce ==
  \A c \in CallIds :
    (calls[c].pc = "done" /\ calls[c].outcome = "AllProvidersFailed"
     /\ calls[c].candidates # <<>>)
    => IsPermutation(calls[c].invoked, calls[c].candidates)

\* all three candidates failed and the call made four backend calls, two of them
\* to the provider selected first
C9_Witness ==
  \E c \in CallIds :
    /\ calls[c].pc = "done" /\ calls[c].outcome = "AllProvidersFailed"
    /\ Len(calls[c].candidates) = 3
    /\ Len(calls[c].invoked) = 4
    /\ Cardinality({i \in 1..4 : calls[c].invoked[i] = calls[c].selected}) = 2

\* C10 (as claimed): the providers attemptFailover() tries after the selected
\* provider failed are the other candidates, in order of descending successRate.
C10_FailoverTriesOnlyTheOthers ==
  \A c \in CallIds :
    (calls[c].failover /\ calls[c].selected # NoProvider)
    => /\ \A i \in 1..Len(calls[c].failoverList) :
            /\ calls[c].failoverList[i] # calls[c].selected
            /\ \E j \in 1..Len(calls[c].candidates) :
                 calls[c].candidates[j] = calls[c].failoverList[i]
       /\ Len(calls[c].failoverList) = Len(calls[c].candidates) - 1

\* the provider that has just failed is the first one attemptFailover() tries
C10_Witness ==
  \E c \in CallIds :
    /\ calls[c].failover /\ calls[c].selected # NoProvider
    /\ calls[c].failoverList # <<>>
    /\ calls[c].failoverList[1] = calls[c].selected
    /\ Len(calls[c].invoked) >= 2
    /\ calls[c].invoked[2] = calls[c].selected

(***************************************************************************)
(* Properties of the performance tracking done by processRequest()         *)
(***************************************************************************)
Elements(seq) == {seq[i] : i \in 1..Len(seq)}

\* C11 (as claimed): a call that missed the cache and has ended has appended
\* exactly one Outcome record for each provider whose backend it invoked, for
\* the attempts that failed as well, and no provider has two.
C11_OneRecordPerProviderContacted ==
  \A c \in CallIds :
    (calls[c].pc = "done" /\ ~calls[c].fromCache)
    => /\ Elements(calls[c].appended) = Elements(calls[c].invoked)
       /\ Cardinality(Elements(calls[c].appended)) = Len(calls[c].appended)

\* the selected provider's backend failed, a failover provider answered, and the
\* call ended with a record for the second only
C11_Witness ==
  \E c \in CallIds :
    /\ calls[c].pc = "done" /\ calls[c].outcome = "response"
    /\ calls[c].selected # NoProvider
    /\ calls[c].selected \in Elements(calls[c].invoked)
    /\ calls[c].response.provider # calls[c].selected
    /\ calls[c].appended = <<calls[c].response.provider>>

(***************************************************************************)
(* Properties of the use processRequest() makes of a CircuitBreaker        *)
(***************************************************************************)
\* the backend call call c is waiting for throws in this step
BackendFails(c) ==
  /\ calls[c].pc \in {"awaitFirst", "awaitFailover"}
  /\ BackendSupported(ProviderById(calls[c].current))
  /\ calls'[c] # calls[c]
  /\ calls'[c].outcome # "response"

\* the backend of a provider is invoked for call c in this step
BackendInvoked(c) == Len(calls'[c].invoked) > Len(calls[c].invoked)

\* C12 (as claimed): every backend call goes through a circuit breaker: none is
\* made while the breaker is OPEN and now < nextAttemptTime, and each backend
\* failure is counted by the breaker (onFailure(): failureCount + 1 at that time).
C12_BackendCallsGoThroughBreaker ==
  [][ \A c \in CallIds :
        /\ BackendInvoked(c) => ~RejectsCall
        /\ BackendFails(c) => (failureCount' = failureCount + 1 /\ lastFailureTime' = now) ]_vars

\* a provider's backend has failed failureThreshold times at one instant and is
\* being called again, while no breaker has counted anything
C12_Witness ==
  \E p \in ProviderIds :
    /\ calls[1].pc = "done" /\ calls[1].outcome = "AllProvidersFailed"
    /\ Cardinality({i \in 1..Len(calls[1].invoked) : calls[1].invoked[i] = p}) = 2
    /\ now = StartTime
    /\ calls[2].pc = "awaitFailover" /\ calls[2].current = p
    /\ Cardinality({i \in 1..Len(calls[2].invoked) : calls[2].invoked[i] = p}) = 2
    /\ failureThreshold = 3
    /\ state = "CLOSED" /\ failureCount = 0

(***************************************************************************)
(* Properties of updateProviderMetrics() and registerProvider()            *)
(***************************************************************************)
\* the status the thresholds 0.8 and 0.5 give
DerivedStatus(successRate) ==
  IF ~RLess(successRate, Rat(8, 10)) THEN "active"
  ELSE IF ~RLess(successRate, Rat(5, 10)) THEN "degraded"
  ELSE "offline"

\* updateProviderMetrics() runs in this step
IsUpdate == requestHistory' # requestHistory

C15_RegisterKeepsExisting ==
  [][ (providers' # providers /\ ~IsUpdate)
      => /\ Len(providers') = Len(providers) + 1
         /\ SubSeq(providers', 1, Len(providers)) = providers
         /\ Last(providers').id \notin ProviderIds ]_vars

\* "backup" has served a request and was then registered again: its entry holds
\* the new prices, performance and status, and its measured performance is lost
C15_Witness ==
  /\ Len(providers) = 3
  /\ \E i \in 1..Len(requestHistory) : requestHistory[i].providerId = "backup"
  /\ providers[3] \in Registrations
  /\ providers[3] # Registry("active", "active", "active")[3]

(***************************************************************************)
(* Properties of the failover and of the Selector                          *)
(***************************************************************************)
\* C14 (as claimed): a call whose selected provider failed ends with an error
\* only after the backend of every candidate (every provider that is not offline
\* and has a capable model) has been tried.
C14_ErrorOnlyAfterEveryCandidate ==
  \A c \in CallIds :
    (calls[c].pc = "done" /\ calls[c].outcome # "response"
     /\ calls[c].selected # NoProvider)
    => Elements(calls[c].candidates) \subseteq Elements(calls[c].invoked)

\* the call ended with 'All providers failed' although a candidate that is
\* degraded, and has a capable model, was never tried
C14_Witness ==
  \E c \in CallIds, p \in ProviderIds :
    /\ calls[c].pc = "done" /\ calls[c].outcome = "AllProvidersFailed"
    /\ calls[c].selected # NoProvider
    /\ p \in Elements(calls[c].candidates)
    /\ p \notin Elements(calls[c].invoked)
    /\ ProviderById(p).status = "degraded"
    /\ hasCapableModel(ProviderById(p), calls[c].request)

\* the Selector returns a provider for call c in this step
Selects(c) == Issued(c) /\ calls'[c].pc = "selected" /\ calls'[c].selected # NoProvider

DifferOnlyInInputPrice(p, q) ==
  /\ p.pricing.inputTokens # q.pricing.inputTokens
  /\ [p EXCEPT !.id = q.id, !.pricing.inputTokens = q.pricing.inputTokens] = q

\* C17 (as claimed): under least_cost, when the candidates for a request are two
\* providers that differ only in the price of their input tokens, the Selector
\* returns the one with the lower price, whichever comes first in the registry.
C17_LeastCostPicksLowerInputPrice ==
  [][ \A c \in CallIds :
        LET candidates == AvailableProviders(calls'[c].request)
        IN  ( /\ Selects(c)
              /\ loadBalancer = "least_cost"
              /\ Len(candidates) = 2
              /\ DifferOnlyInInputPrice(candidates[1], candidates[2]) )
            => \A i \in 1..2 :
                 candidates[i].id = calls'[c].selected
                 => candidates[i].pricing.inputTokens < candidates[3 - i].pricing.inputTokens ]_vars

\* dear is registered before cheap and a request with a prompt of 100 characters
\* goes to dear: both estimates round to 3 cents
C17_Witness ==
  /\ providers = <<ProviderDear, ProviderCheap>>
  /\ loadBalancer = "least_cost"
  /\ calls[1].pc = "selected"
  /\ calls[1].request = ReqPlain
  /\ EstimatedCost(ProviderDear, ReqPlain) = EstimatedCost(ProviderCheap, ReqPlain)
  /\ calls[1].selected = "dear"

\* The weighted score of the claim: 40 for successRate, 30 for
\* 1000 / averageLatency, 20 for the share (100 - cost in cents) / 100, and 10
\* for the priority adjustment, which is successRate for an urgent request and
\* the same share for a low-priority one.
WeightedScore(p, request) ==
  LET cents == EstimatedCost(p, request)
      share == Rat(100 - cents, 100)
      latency == p.performance.averageLatency
      adjustment == IF request.priority = "urgent" THEN p.performance.successRate
                    ELSE IF request.priority = "low" THEN share
                    ELSE RInt(0)
  IN  RAdd(RAdd(RMul(RInt(40), p.performance.successRate),
                RMul(RInt(30), Rat(1000 * latency.d, latency.n))),
           RAdd(RMul(RInt(20), share), RMul(RInt(10), adjustment)))

SelectedAmong(d, ids) ==
  /\ calls[d].pc # "idle" /\ ~calls[d].fromCache
  /\ calls[d].selected # NoProvider
  /\ calls[d].candidates = ids

\* C19 (as claimed): under round_robin, with the same k candidates, all active,
\* k selections in a row choose k different providers: the k-th differs from the
\* k - 1 before it.
C19_RoundRobinCycles ==
  [][ \A c \in CallIds :
        LET ids == calls'[c].candidates
            k == Len(ids)
        IN  ( /\ Selects(c)
              /\ loadBalancer = "round_robin"
              /\ \A i \in 1..k : ProviderById(ids[i]).status = "active"
              /\ c >= k
              /\ \A d \in (c - k + 1)..(c - 1) : SelectedAmong(d, ids) )
            => \A d \in (c - k + 1)..(c - 1) : calls'[c].selected # calls[d].selected ]_vars

\* two selections in a row among the same two active candidates, no Outcome
\* record in between, chose the same provider
C19_Witness ==
  /\ loadBalancer = "round_robin"
  /\ Len(calls[1].candidates) = 2
  /\ \A i \in 1..2 : ProviderById(calls[1].candidates[i]).status = "active"
  /\ calls[1].pc = "selected" /\ calls[2].pc = "selected"
  /\ calls[2].candidates = calls[1].candidates
  /\ requestHistory = <<>>
  /\ calls[1].selected # NoProvider
  /\ calls[2].selected = calls[1].selected

\* no Outcome record names a provider with one of these ids: their prices,
\* performance and status are those they were registered with
Untouched(ids) ==
  \A i \in 1..Len(requestHistory) : requestHistory[i].providerId \notin Elements(ids)

\* C20 (as claimed): two selections for the same request among the same
\* candidates, whose prices, performance and status have not changed, return
\* the same provider, under each strategy (the strategy of a run is fixed).
C20_SelectorIsPure ==
  [][ \A c1 \in CallIds, c2 \in CallIds :
        ( /\ c1 # c2
          /\ Selects(c2)
          /\ SelectedAmong(c1, calls'[c2].candidates)
          /\ calls[c1].request = calls'[c2].request
          /\ Untouched(calls'[c2].candidates) )
        => calls'[c2].selected = calls[c1].selected ]_vars

\* under round_robin the same request went to openai and then to anthropic; in
\* between the call was answered by backup, which is not a candidate for it
C20_Witness ==
  /\ loadBalancer = "round_robin"
  /\ providers[1] = Registry("active", "active", "active")[1]
  /\ providers[2] = Registry("active", "active", "active")[2]
  /\ calls[1].request = ReqReasoning /\ calls[2].request = ReqReasoning
  /\ calls[1].candidates = <<"openai", "anthropic">>
  /\ calls[2].candidates = <<"openai", "anthropic">>
  /\ calls[1].selected = "openai"
  /\ calls[1].response.provider = "backup"
  /\ Len(requestHistory) = 1
  /\ calls[2].pc = "selected"
  /\ calls[2].selected = "anthropic"

(***************************************************************************)
(* Further properties of the CircuitBreaker                                *)
(***************************************************************************)
\* C25: a call that succeeds while the breaker is CLOSED sets failureCount to 0 if
\* more than timeoutWindow has passed since the last failure and leaves it as it
\* is otherwise; nothing else of the breaker changes.
C25_ClosedSuccessResetsAfterWindow ==
  [][ (state = "CLOSED" /\ lastEvent' = "succeeded")
      => /\ failureCount' = IF now - lastFailureTime > timeoutWindow THEN 0 ELSE failureCount
         /\ UNCHANGED <<state, lastFailureTime, nextAttemptTime, successCount>> ]_vars

\* a success exactly timeoutWindow after the second failure has kept the count,
\* one failure short of the threshold
C25_Witness ==
  /\ state = "CLOSED"
  /\ lastEvent = "succeeded"
  /\ failureCount = failureThreshold - 1
  /\ now - lastFailureTime = timeoutWindow

\* C28 (as claimed): while the breaker is OPEN nextAttemptTime does not change,
\* and the breaker leaves OPEN only when a call is admitted at or after
\* nextAttemptTime.
C28_OpenBreakerUntouchedByLateOutcomes ==
  [][ state = "OPEN"
      => /\ state' = "OPEN" => nextAttemptTime' = nextAttemptTime
         /\ state' # "OPEN" => (lastEvent' = "admitted" /\ now >= nextAttemptTime) ]_vars

\* a call admitted while the breaker was CLOSED has failed after it opened,
\* before any recovery was due, and nextAttemptTime has moved to that failure's
\* time + recoveryTimeout
C28_Witness ==
  /\ state = "OPEN"
  /\ lastEvent = "failed"
  /\ ThresholdReached(recentFailures)
  /\ Last(recentFailures) < now
  /\ now < Last(recentFailures) + recoveryTimeout
  /\ failureCount = failureThreshold + 1
  /\ nextAttemptTime = now + recoveryTimeout

\* C29: a CLOSED breaker has counted fewer than failureThreshold failures and a
\* HALF_OPEN breaker fewer than 5 successes, calls in flight or not.
C29_CountersBelowTheirLimits ==
  /\ state = "CLOSED" => failureCount < failureThreshold
  /\ state = "HALF_OPEN" => successCount < 5

\* a HALF_OPEN breaker with four successes and two calls in flight
C29_Witness ==
  /\ state = "HALF_OPEN"
  /\ successCount = 4
  /\ inFlight = 2
  /\ failureCount >= failureThreshold

(***************************************************************************)
(* Properties of the ContentCache                                          *)
(***************************************************************************)
\* C24: in every state the cache can be in, get(key) made now returns nothing
\* and removes the entry if the entry has now > expiresAt; on a live entry it
\* returns the value, adds 1 to accessCount, sets lastAccessed to now and leaves
\* key, value, createdAt and expiresAt as they are; no other entry changes.
C24_GetNeverReturnsExpired ==
  \A key \in CacheKeyNames :
    LET got == CacheGet(apiCache, key, now)
        Others(cache) == SelectSeq(cache, LAMBDA entry : entry.key # key)
        Mine(cache) == SelectSeq(cache, LAMBDA entry : entry.key = key)
    IN  /\ Others(got.cache) = Others(apiCache)
        /\ \A i \in 1..Len(apiCache) :
             apiCache[i].key = key =>
               IF now > apiCache[i].expiresAt
               THEN got.value = NoResponse /\ Mine(got.cache) = <<>>
               ELSE /\ got.value = apiCache[i].value
                    /\ Len(got.cache) = Len(apiCache)
                    /\ got.cache[i] = [key |-> key,
                                      value |-> apiCache[i].value,
                                      expiresAt |-> apiCache[i].expiresAt,
                                      createdAt |-> apiCache[i].createdAt,
                                      accessCount |-> apiCache[i].accessCount + 1,
                                      lastAccessed |-> now]
        /\ Mine(apiCache) = <<>> => (got.value = NoResponse /\ got.cache = apiCache)

\* one entry was read at the last instant of its life, and another one is in the
\* cache after its expiry, where get() will not return it
C24_Witness ==
  \E i \in 1..Len(apiCache), j \in 1..Len(apiCache) :
    /\ apiCache[i].accessCount = 1
    /\ apiCache[i].lastAccessed = now
    /\ apiCache[i].expiresAt = now
    /\ apiCache[i].createdAt < now
    /\ now > apiCache[j].expiresAt

\* C26 (as claimed): the cache never holds more than maxSize entries.
C26_SizeNeverExceedsMaxSize == Len(apiCache) <= MaxCacheSize

\* three sets of three keys at the same timestamp have left three entries in a
\* cache of maxSize 2
C26_Witness ==
  /\ Len(apiCache) = MaxCacheSize + 1
  /\ \A i \in 1..Len(apiCache) : apiCache[i].createdAt = now /\ apiCache[i].lastAccessed = now

(***************************************************************************)
(* Further properties of the failover and of round_robin                   *)
(***************************************************************************)
\* the provider has a model that meets the request's type, maxTokens and
\* reasoning constraints
MeetsConstraints(provider, request) ==
  \E i \in 1..Len(provider.models) :
    /\ request.type = "text_generation" => provider.models[i].type = "text"
    /\ request.maxTokens # 0 => provider.models[i].maxTokens >= request.maxTokens
    /\ request.requirements.requiresReasoning
         => "reasoning" \in provider.models[i].capabilities

\* C27 (as claimed): every provider whose backend a call has invoked, in the
\* failover loop as well, is not offline and has a model that meets the
\* request's constraints.
C27_FailoverContactsOnlyQualified ==
  \A c \in CallIds :
    \A p \in Elements(calls[c].invoked) :
      /\ ProviderById(p).status # "offline"
      /\ MeetsConstraints(ProviderById(p), calls[c].request)

\* a request that requires reasoning was answered in failover by backup, with
\* its only model, which does not reason
C27_Witness ==
  \E c \in CallIds :
    /\ calls[c].request = ReqReasoning
    /\ calls[c].failover
    /\ calls[c].outcome = "response"
    /\ calls[c].response.provider = "backup"
    /\ calls[c].response.model = BackupModels[1].id
    /\ "reasoning" \notin BackupModels[1].capabilities

\* C30 (as claimed): under round_robin, when some provider is a candidate for
\* the request, the Selector returns one of the candidates.
C30_RoundRobinReturnsACandidate ==
  [][ \A c \in CallIds :
        ( /\ Issued(c) /\ calls'[c].pc = "selected"
          /\ loadBalancer = "round_robin"
          /\ calls'[c].candidates # <<>> )
        => calls'[c].selected \in Elements(calls'[c].candidates) ]_vars

\* under round_robin two degraded providers were the candidates, the Selector
\* returned none and the call went on as one without any provider
C30_Witness ==
  \E c \in CallIds :
    /\ loadBalancer = "round_robin"
    /\ calls[c].pc = "selected"
    /\ calls[c].candidates = <<"openai", "anthropic">>
    /\ ProviderById("openai").status = "degraded"
    /\ ProviderById("anthropic").status = "degraded"
    /\ calls[c].selected = NoProvider

(***************************************************************************)
(* Properties of the request history and of the metrics taken from it      *)
(***************************************************************************)
\* C22: the request history never holds more than 1000 records, and a step
\* that changes it appends one record and discards records from the front only,
\* and only when the cap would be exceeded: the records that stay are unchanged
\* and in their order.
C22_HistoryCappedAndTrimmedFromFront ==
  [][ /\ Len(requestHistory') <= 1000
      /\ requestHistory' # requestHistory =>
           \E discarded \in 0..Len(requestHistory) :
             /\ Len(requestHistory') = Len(requestHistory) - discarded + 1
             /\ \A i \in 1..(Len(requestHistory) - discarded) :
                  requestHistory'[i] = requestHistory[i + discarded]
             /\ discarded > 0 => Len(requestHistory) + 1 > 1000
             /\ discarded > 0 => Len(requestHistory') = 1000 ]_vars

\* C22 witness: the history is full, its last two records were pushed from
\* StartTime on and its first is an earlier one: the oldest record has been
\* discarded.
C22_Witness ==
  /\ Len(requestHistory) = 1000
  /\ requestHistory[999].timestamp = StartTime
  /\ requestHistory[1].timestamp < StartTime

\* the provider's records in the history, oldest first
RecordsOf(history, providerId) ==
  LET Mine(r) == r.providerId = providerId IN SelectSeq(history, Mine)

\* count, successes and sum of the latencies of the last 100 of these records:
\* the sum is taken latency by latency, each times the number of records with it
WindowTotals(records) ==
  LET n == Len(records)
      first == IF n > 100 THEN n - 99 ELSE 1
      With(l) == Len(SelectSeq(SubSeq(records, first, n), LAMBDA r : r.latency = l))
      sum[S \in SUBSET Latencies] ==
        IF S = {} THEN 0
        ELSE LET l == CHOOSE x \in S : TRUE IN l * With(l) + sum[S \ {l}]
  IN  [count |-> n - first + 1, latency |-> sum[Latencies],
       successes |-> Len(SelectSeq(SubSeq(records, first, n), LAMBDA r : r.success))]

\* C23: when an outcome of a provider has been recorded, the provider's
\* averageLatency is the arithmetic mean of the latencies of its most recent 100
\* records in the history, and its successRate the successes among these
\* records over their number.
C23_MetricsAreWindowMeans ==
  [][ requestHistory' # requestHistory =>
        LET providerId == requestHistory'[Len(requestHistory')].providerId
            window == WindowTotals(RecordsOf(requestHistory', providerId))
            Performance(i) == providers'[i].performance
        IN  \A i \in 1..Len(providers') :
              providers'[i].id = providerId =>
                /\ Performance(i).averageLatency = Rat(window.latency, window.count)
                /\ Performance(i).successRate = Rat(window.successes, window.count) ]_vars

\* C23 witness: openai has more than 100 records in the history, the last one
\* pushed from StartTime on, and its mean over the window is not a latency any
\* single record has.
C23_Witness ==
  /\ Len(RecordsOf(requestHistory, "openai")) > 100
  /\ requestHistory # <<>>
  /\ Last(requestHistory).providerId = "openai"
  /\ Last(requestHistory).timestamp = StartTime
  /\ ProviderById("openai").performance.averageLatency \notin {RInt(l) : l \in Latencies}
  /\ RLess(ProviderById("openai").performance.successRate, RInt(1))


(***************************************************************************)
(* Properties of the health probes                                         *)
(***************************************************************************)
\* a step in which the probe of a provider ends
ProbeEnds == \E id \in ProviderIds : HealthProbeSucceeds(id) \/ HealthProbeFails(id)

\* The provider whose response a call in flight returns when exactly the
\* backends of the providers in answering answer, all others throw and no other
\* step comes between; order is what attemptFailover() takes if it is still to
\* be entered.
ServedBy(call, order, answering) ==
  LET FirstAnswering(ids) ==
        IF \E i \in 1..Len(ids) : ids[i] \in answering
        THEN ids[CHOOSE i \in 1..Len(ids) :
                   /\ ids[i] \in answering
                   /\ \A j \in 1..(i - 1) : ids[j] \notin answering]
        ELSE "nobody: All providers failed"
  IN  IF call.current \in answering THEN call.current
      ELSE IF call.pc = "awaitFirst" THEN FirstAnswering(order)
      ELSE FirstAnswering(call.remaining)

\* only the status of providers differs between the two registries
OnlyStatusDiffers(before, after) ==
  /\ Len(after) = Len(before)
  /\ \A i \in 1..Len(before) : after[i] = [before[i] EXCEPT !.status = after[i].status]

====
